---- MODULE Spec2Model ----
(***************************************************************************)
(* Release comment action: release-boundary resolution (main of            *)
(* src/index.ts and getTags of the library) and the commit -> pull request *)
(* -> issue pipeline with its notifier.                                    *)
(*                                                                         *)
(* Strings are sequences of tokens (each token a short piece of text), so  *)
(* that prefix stripping, semantic-version parsing, joining and substring  *)
(* replacement are computed on the text of the tag names.                  *)
(***************************************************************************)
EXTENDS Integers, Sequences, FiniteSets, TLC

(***************************************************************************)
(* Bounds                                                                  *)
(***************************************************************************)
\* longest tag history of the repository that is explored
MaxTags == 3

(***************************************************************************)
(* Text                                                                    *)
(***************************************************************************)
\* the decimal numerals that occur in the explored tag names
NumToks == {"0", "1", "2", "3", "9"}

\* letters-only pieces of text
AlphaToks == {"v", "pre", "nightly", "abc", "a", "b", "foo", "pkg"}

\* Number(text) of a numeral
Number(t) ==
  CASE t = "0" -> 0
    [] t = "1" -> 1
    [] t = "2" -> 2
    [] t = "3" -> 3
    [] t = "9" -> 9

\* String(n) of an integer, as text
String(n) ==
  CASE n = -1 -> <<"-", "1">>
    [] n = 0 -> <<"0">>
    [] n = 1 -> <<"1">>
    [] n = 2 -> <<"2">>
    [] n = 3 -> <<"3">>
    [] n = 8 -> <<"8">>
    [] n = 9 -> <<"9">>

\* String.prototype.startsWith
StartsWith(s, prefix) ==
  /\ Len(s) >= Len(prefix)
  /\ SubSeq(s, 1, Len(prefix)) = prefix

\* position of the first occurrence of pat in s, 0 when there is none
IndexOf(s, pat) ==
  LET hits == {i \in 1..(Len(s) - Len(pat) + 1) :
                 SubSeq(s, i, i + Len(pat) - 1) = pat}
  IN IF hits = {} THEN 0 ELSE CHOOSE i \in hits : \A j \in hits : i <= j

\* String.prototype.replace with a string pattern: the first occurrence only
Replace(s, pat, rep) ==
  LET i == IndexOf(s, pat)
  IN IF i = 0 THEN s
     ELSE SubSeq(s, 1, i - 1) \o rep \o SubSeq(s, i + Len(pat), Len(s))

\* String.prototype.split on a one-token separator
RECURSIVE Split(_, _)
Split(s, sep) ==
  LET i == IndexOf(s, <<sep>>)
  IN IF i = 0 THEN <<s>>
     ELSE <<SubSeq(s, 1, i - 1)>> \o Split(SubSeq(s, i + 1, Len(s)), sep)

\* Array.prototype.join of pieces of text
RECURSIVE Join(_, _)
Join(parts, sep) ==
  IF Len(parts) = 0 THEN <<>>
  ELSE IF Len(parts) = 1 THEN parts[1]
  ELSE parts[1] \o <<sep>> \o Join(Tail(parts), sep)

(***************************************************************************)
(* semver                                                                  *)
(***************************************************************************)
\* a pre-release identifier: one numeral, or text of letters, numerals and
\* hyphens holding at least one letter or hyphen
IsPrereleaseIdentifier(id) ==
  /\ Len(id) > 0
  /\ \A i \in 1..Len(id) : id[i] \in NumToks \cup AlphaToks \cup {"-"}
  /\ \/ Len(id) = 1
     \/ \E i \in 1..Len(id) : id[i] \notin NumToks

\* the result of parsing text that is not a semantic version
InvalidVersion ==
  [valid |-> FALSE, major |-> 0, minor |-> 0, patch |-> 0, prerelease |-> <<>>]

\* semver.parse in strict mode: v?MAJOR.MINOR.PATCH(-PRERELEASE)?
SemVer(version) ==
  LET body == IF Len(version) > 0 /\ version[1] = "v" THEN Tail(version)
              ELSE version
      rest == SubSeq(body, 6, Len(body))
      ids == Split(Tail(rest), ".")
  IN IF ~ /\ Len(body) >= 5
          /\ body[1] \in NumToks /\ body[2] = "." /\ body[3] \in NumToks
          /\ body[4] = "." /\ body[5] \in NumToks
     THEN InvalidVersion
     ELSE IF rest = <<>>
     THEN [valid |-> TRUE, major |-> Number(body[1]), minor |-> Number(body[3]),
           patch |-> Number(body[5]), prerelease |-> <<>>]
     ELSE IF rest[1] = "-" /\ \A k \in 1..Len(ids) : IsPrereleaseIdentifier(ids[k])
     THEN [valid |-> TRUE, major |-> Number(body[1]), minor |-> Number(body[3]),
           patch |-> Number(body[5]), prerelease |-> ids]
     ELSE InvalidVersion

\* JavaScript null
Null == <<>>

\* semver.prerelease: the pre-release identifiers, or null when the text is
\* not a version or has no pre-release part
semver_prerelease(version) ==
  LET parsed == SemVer(version)
  IN IF parsed.valid /\ Len(parsed.prerelease) > 0 THEN parsed.prerelease
     ELSE Null

\* typeof x === "number" of a pre-release identifier
IsNumber(id) == Len(id) = 1 /\ id[1] \in NumToks

(***************************************************************************)
(* Tags                                                                    *)
(***************************************************************************)
\* JavaScript undefined
Undefined == [undefined |-> TRUE]

\* the literal "v0.0.0-nightly-"
NightlyPrefix == <<"v", "0", ".", "0", ".", "0", "-", "nightly", "-">>

\* the tag names a repository may carry
TagNames ==
  { <<"pkg", "@", "3", ".", "0", ".", "0">>,
    <<"pkg", "@", "2", ".", "0", ".", "1">>,
    <<"pkg", "@", "2", ".", "0", ".", "0">>,
    <<"pkg", "@", "1", ".", "9", ".", "0">>,
    <<"pkg", "@", "3", ".", "0", ".", "0", "-", "pre", ".", "0">>,
    <<"pkg", "@", "2", ".", "1", ".", "0", "-", "pre", ".", "0">>,
    <<"pkg", "@", "2", ".", "1", ".", "0", "-", "pre", ".", "1">>,
    <<"pkg", "@", "2", ".", "1", ".", "0", "-", "pre">>,
    <<"pkg", "@", "foo">>,
    NightlyPrefix \o <<"abc">>,
    NightlyPrefix \o <<"a", "_", "b">> }

\* tag histories, newest first: tag names are unique in a repository
TagHistories ==
  {h \in UNION {[1..n -> TagNames] : n \in 0..MaxTags} :
     \A i, j \in 1..Len(h) : i # j => h[i] # h[j]}

\* the output lines of `git tag -l <patterns> --sort -creatordate`
GitTagOutput(history, packageName, includeNightly) ==
  LET listed(name) ==
        \/ packageName = <<>>
        \/ StartsWith(name, packageName \o <<"@">>)
        \/ includeNightly /\ StartsWith(name, NightlyPrefix)
  IN SelectSeq(history, listed)

\* stdout.split("\n"): an empty output is one empty line
Lines(out) == IF out = <<>> THEN << <<>> >> ELSE out

\* gitTags: { raw, clean } of every output line
ToTags(lines, packageName) ==
  [i \in 1..Len(lines) |->
     [raw |-> lines[i],
      clean |-> IF packageName # <<>> /\ StartsWith(lines[i], packageName \o <<"@">>)
                THEN SubSeq(lines[i], Len(packageName) + 2, Len(lines[i]))
                ELSE lines[i]]]

\* getStableTags without its filter
getStableTags_All(tags) == tags

\* getStableTags
getStableTags(tags) ==
  SelectSeq(tags, LAMBDA tag : semver_prerelease(tag.clean) = Null)

\* outcomes of a function that returns a tag or throws
Return(tag) == [thrown |-> "none", value |-> tag]

Throw(err) == [thrown |-> err, value |-> Undefined]

\* ExpectedMajor without the step back at an x.0.0 version
ExpectedMajor_SameMajor(v) == v.major

\* the major version findPreviousStableRelease looks for
ExpectedMajor(v) ==
  IF v.minor = 0 /\ v.patch = 0 THEN v.major - 1 ELSE v.major

\* stableTags.find((t) => semver.major(t.clean) === expectedMajor), where
\* semver.major throws on text that is not a version
RECURSIVE FindMajor(_, _, _)
FindMajor(stableTags, expectedMajor, i) ==
  IF i > Len(stableTags) THEN Throw("NoPreviousStableRelease")
  ELSE IF ~SemVer(stableTags[i].clean).valid THEN Throw("InvalidVersion")
  ELSE IF SemVer(stableTags[i].clean).major = expectedMajor
  THEN Return(stableTags[i])
  ELSE FindMajor(stableTags, expectedMajor, i + 1)

\* findPreviousStableRelease
findPreviousStableRelease(tag, gitTags) ==
  LET stableTags == getStableTags(gitTags)
      v == SemVer(tag.clean)
  IN IF ~v.valid THEN Throw("InvalidVersion")
     ELSE FindMajor(stableTags, ExpectedMajor(v), 1)

\* PriorTag without the decrement of the ordinal
PriorTag_SameOrdinal(raw, preRelease) ==
  Replace(raw, Join(preRelease, "."),
          Join(<<preRelease[1], String(Number(preRelease[2][1]))>>, "."))

\* the name of the prior pre-release tag: pre.N replaced by pre.N-1
PriorTag(raw, preRelease) ==
  Replace(raw, Join(preRelease, "."),
          Join(<<preRelease[1], String(Number(preRelease[2][1]) - 1)>>, "."))

\* gitTags.find((tag) => tag.raw === priorTag)
FindRaw(gitTags, priorTag) ==
  LET hits == {i \in 1..Len(gitTags) : gitTags[i].raw = priorTag}
  IN IF hits = {} THEN Undefined
     ELSE gitTags[CHOOSE i \in hits : \A j \in hits : i <= j]

\* let [latest, previous] = gitTags
Second(gitTags) == IF Len(gitTags) >= 2 THEN gitTags[2] ELSE Undefined

\* the three flags computed from latest.clean
Classify(clean) ==
  LET stable == semver_prerelease(clean) = Null
      nightly == StartsWith(clean, NightlyPrefix)
  IN [isStable |-> stable, isNightly |-> nightly,
      isPreRelease |-> ~stable /\ ~nightly]

\* boundary resolution of main: the previous tag, or the error thrown
ResolvePrevious(gitTags) ==
  LET latest == gitTags[1]
      kind == Classify(latest.clean)
      preRelease == semver_prerelease(latest.clean)
      priorPreRelease == FindRaw(gitTags, PriorTag(latest.raw, preRelease))
  IN IF kind.isPreRelease
     THEN IF ~(Len(preRelease) >= 2 /\ IsNumber(preRelease[2]))
          THEN Throw("UnableToParsePrerelease")
          ELSE IF Join(preRelease, ".") = <<"pre", ".", "0">>
          THEN findPreviousStableRelease(latest, gitTags)
          ELSE IF priorPreRelease # Undefined THEN Return(priorPreRelease)
          ELSE Throw("PriorPrereleaseNotFound")
     ELSE IF kind.isStable THEN findPreviousStableRelease(latest, gitTags)
     ELSE Return(Second(gitTags))

(***************************************************************************)
(* Pull requests and issues                                                *)
(***************************************************************************)
\* parseInt of text that is not a number
NaN == -1

\* parseInt(text, 10) of the issue numerals that occur in bodies
parseInt(t) ==
  CASE t = "5" -> 5
    [] t = "12" -> 12
    [] t = "34" -> 34
    [] OTHER -> NaN

\* toLowerCase left out: the text is compared as it is written
toLowerCase_Identity(t) == t

\* String.prototype.toLowerCase of the words and titles that occur
toLowerCase(t) ==
  CASE t = "Fixes" -> "fixes"
    [] t = "CLOSES" -> "closes"
    [] t = "Resolves" -> "resolves"
    [] t = "Closes" -> "closes"
    [] t = "Chore: Update Version For Release" -> "chore: update version for release"
    [] t = "CHORE: UPDATE VERSION FOR RELEASE (PRE)"
         -> "chore: update version for release (pre)"
    [] OTHER -> t

\* the alternatives of the closing-keyword regular expression
ClosingKeywords ==
  {"close", "closes", "closed", "fix", "fixes", "fixed",
   "resolve", "resolves", "resolved"}

\* the characters \s matches
Whitespace == {" ", "\t", "\n"}

\* the length of the match of /(keyword)(:)?\s#([0-9]+)/i at position i of
\* the body, 0 when there is none
MatchAt(prBody, i) ==
  LET j == IF i + 1 <= Len(prBody) /\ prBody[i + 1] = ":" THEN i + 2 ELSE i + 1
  IN IF /\ toLowerCase(prBody[i]) \in ClosingKeywords
        /\ j + 2 <= Len(prBody)
        /\ prBody[j] \in Whitespace
        /\ prBody[j + 1] = "#"
        /\ parseInt(prBody[j + 2]) # NaN
     THEN j + 3 - i
     ELSE 0

\* prBody.match(regex) with the g flag: every match, left to right
RECURSIVE Matches(_, _)
Matches(prBody, i) ==
  IF i > Len(prBody) THEN <<>>
  ELSE IF MatchAt(prBody, i) = 0 THEN Matches(prBody, i + 1)
  ELSE <<SubSeq(prBody, i, i + MatchAt(prBody, i) - 1)>>
       \o Matches(prBody, i + MatchAt(prBody, i))

\* let [, issueNumber] = match.split(" #"); parseInt(issueNumber, 10)
IssueOfMatch(match) ==
  LET i == IndexOf(match, <<" ", "#">>)
  IN IF i = 0 THEN NaN ELSE parseInt(match[i + 2])

\* getIssuesClosedViaBody
getIssuesClosedViaBody(prBody) ==
  LET matches == Matches(prBody, 1)
  IN IF prBody = <<>> THEN <<>>
     ELSE [k \in 1..Len(matches) |-> IssueOfMatch(matches[k])]

\* [...new Set(list)]: the first occurrence of every element, in order
RECURSIVE Unique(_)
Unique(list) ==
  IF list = <<>> THEN <<>>
  ELSE LET init == Unique(SubSeq(list, 1, Len(list) - 1))
           last == list[Len(list)]
       IN IF \E k \in 1..Len(init) : init[k] = last THEN init
          ELSE Append(init, last)

\* uniqueIssues without the Set: the two lists one after the other
uniqueIssues_Concat(linkedIssues, issuesClosedViaBody) ==
  linkedIssues \o issuesClosedViaBody

\* [...new Set([...linkedIssues, ...issuesClosedViaBody])]
uniqueIssues(linkedIssues, issuesClosedViaBody) ==
  Unique(linkedIssues \o issuesClosedViaBody)

\* the titles of the release-bookkeeping pull requests
CHANGESET_PR_TITLES ==
  {"chore: update version for release",
   "chore: update version for release (pre)"}

(***************************************************************************)
(* State                                                                   *)
(***************************************************************************)
VARIABLES
  history,                \* the tags of the repository, newest first
  world,                  \* what git and the forge answer in this run
  PACKAGE_NAME,           \* input: the package whose tags are followed
  INCLUDE_NIGHTLY,        \* input
  DRY_RUN,                \* input
  PR_LABELS_TO_REMOVE,    \* input: TRUE when a label is configured
  ISSUE_LABELS_TO_REMOVE, \* input: TRUE when a label is configured
  GITHUB_REPOSITORY,      \* input: TRUE when the repository is named
  pc,                     \* where main stands
  error,                  \* the error the run failed with, "none" otherwise
  calls,                  \* the git and gh commands issued so far, in order
  gitTags,
  latest,
  previous,
  isStable,
  isNightly,
  isPreRelease,
  gitCommits,
  tasks,                  \* the per-commit promises of findMergedPRs
  prs,                    \* the result of findMergedPRs
  cursor,                 \* index in prs of the record being notified
  promises,               \* the promises of the current record's fan-out
  failures,               \* the rejected commands reported with core.error
  prBody,                 \* the argument of a call of getIssuesClosedViaBody
  issuesMatch             \* what that call returned

vars ==
  <<history, world, PACKAGE_NAME, INCLUDE_NIGHTLY, DRY_RUN, PR_LABELS_TO_REMOVE,
    ISSUE_LABELS_TO_REMOVE, GITHUB_REPOSITORY, failures, pc, error, calls, gitTags, latest, previous,
    isStable, isNightly, isPreRelease, gitCommits, tasks, prs, cursor, promises,
    prBody, issuesMatch>>

inputs ==
  <<history, world, PACKAGE_NAME, INCLUDE_NIGHTLY, DRY_RUN, PR_LABELS_TO_REMOVE,
    ISSUE_LABELS_TO_REMOVE, GITHUB_REPOSITORY>>

tagVars == <<gitTags, latest, previous, isStable, isNightly, isPreRelease>>

\* the call of getIssuesClosedViaBody on its own, which main leaves alone
scanVars == <<prBody, issuesMatch>>

\* a command handed to execa
Call(cmd, arg) == [cmd |-> cmd, arg |-> arg]

\* a pull request as `gh pr list --json number,title,url,body` prints it
PullRequest(number, title, body) ==
  [number |-> number, title |-> title, url |-> number, body |-> body]

\* an answer of `gh pr list`: res is "ok", "stderr" (text on the error
\* stream) or "reject" (execa rejects on a failing exit code); list holds the
\* parsed array, "malformed" standing for an element of another shape
PrListAnswer(res, list) == [res |-> res, list |-> list]

\* an answer of `gh api graphql`: valid is the outcome of the schema check
GraphAnswer(res, valid, nodes) == [res |-> res, valid |-> valid, nodes |-> nodes]

\* a run in which git and the forge answer every command, one commit leads
\* to one pull request, and that pull request closes no issue
QuietWorld ==
  [tags |-> "ok", log |-> "ok", commits |-> <<"c1">>,
   prList |-> [c \in {"c1"} |-> PrListAnswer("ok", <<PullRequest(10, "feat: x", <<>>)>>)],
   graph |-> [n \in {10} |-> GraphAnswer("ok", TRUE, <<>>)],
   rejected |-> {}]

\* the runs explored for boundary resolution
BoundaryWorlds ==
  {QuietWorld, [QuietWorld EXCEPT !.tags = "stderr"]}

\* a run has not started: nothing is computed yet
Idle ==
  /\ pc = "start"
  /\ error = "none"
  /\ calls = <<>>
  /\ gitTags = <<>>
  /\ latest = Undefined
  /\ previous = Undefined
  /\ isStable = FALSE
  /\ isNightly = FALSE
  /\ isPreRelease = FALSE
  /\ gitCommits = <<>>
  /\ tasks = <<>>
  /\ prs = <<>>
  /\ cursor = 0
  /\ promises = <<>>
  /\ failures = <<>>
  /\ issuesMatch = <<>>

Init ==
  /\ history \in TagHistories
  /\ world \in BoundaryWorlds
  /\ PACKAGE_NAME \in {<<"pkg">>, <<>>}
  /\ INCLUDE_NIGHTLY \in BOOLEAN
  /\ DRY_RUN \in BOOLEAN
  /\ PR_LABELS_TO_REMOVE = TRUE
  /\ ISSUE_LABELS_TO_REMOVE = TRUE
  /\ GITHUB_REPOSITORY = TRUE
  /\ prBody = <<>>
  /\ Idle

(***************************************************************************)
(* main of src/index.ts                                                    *)
(***************************************************************************)
\* Fail with the error reported but not thrown: main goes on
Fail_Continue(err) ==
  /\ pc' = "awaitLog"
  /\ error' = err

\* the run fails: main's promise rejects and core.setFailed is called
Fail(err) ==
  /\ pc' = "failed"
  /\ error' = err

\* main is called and lists the tags
Start ==
  /\ pc = "start"
  /\ pc' = "awaitTags"
  /\ calls' = Append(calls, Call("git tag", <<>>))
  /\ UNCHANGED <<inputs, scanVars, failures, error, tagVars, gitCommits, tasks, prs, cursor, promises>>

\* `git tag` has answered: the tags are classified, the boundary is resolved
\* and the commits between the two tags are asked for
TagsReturn ==
  /\ pc = "awaitTags"
  /\ LET tags == ToTags(Lines(GitTagOutput(history, PACKAGE_NAME, INCLUDE_NIGHTLY)),
                        PACKAGE_NAME)
         kind == Classify(tags[1].clean)
         resolved == ResolvePrevious(tags)
     IN IF world.tags = "reject"
        THEN Fail("ExecaRejected") /\ UNCHANGED <<calls, tagVars>>
        ELSE IF world.tags = "stderr"
        THEN Fail("GitTagsStderr") /\ UNCHANGED <<calls, tagVars>>
        ELSE /\ gitTags' = tags
             /\ latest' = tags[1]
             /\ isStable' = kind.isStable
             /\ isNightly' = kind.isNightly
             /\ isPreRelease' = kind.isPreRelease
             /\ IF resolved.thrown # "none"
                THEN /\ Fail(resolved.thrown)
                     /\ previous' = Second(tags)
                     /\ calls' = calls
                ELSE IF resolved.value = Undefined
                THEN /\ Fail("TypeError")
                     /\ previous' = Undefined
                     /\ calls' = calls
                ELSE /\ previous' = resolved.value
                     /\ pc' = "awaitLog"
                     /\ error' = error
                     /\ calls' = Append(calls, Call("git log",
                                          <<resolved.value.raw, tags[1].raw>>))
  /\ UNCHANGED <<inputs, scanVars, failures, gitCommits, tasks, prs, cursor, promises>>

\* the promise of one commit's resolution in findMergedPRs
Task(st, commit, pr, value) == [st |-> st, commit |-> commit, pr |-> pr, value |-> value]

\* a first element of the `gh pr list` output that fails the schema
Malformed == [malformed |-> TRUE]

\* a first element of the `gh pr list` output that is falsy, such as null
JsonNull == [null |-> TRUE]

\* FanOut without the comment on a pull request that has one already
FanOut_SkipNotified(pr) ==
  LET labels(kind, id, configured) ==
        IF configured /\ isStable THEN <<Call(kind, <<id>>)>> ELSE <<>>
      RECURSIVE ofIssues(_)
      ofIssues(issues) ==
        IF issues = <<>> THEN <<>>
        ELSE <<Call("gh issue comment", <<Head(issues)>>),
               Call("gh issue close", <<Head(issues)>>)>>
             \o labels("gh issue edit", Head(issues), ISSUE_LABELS_TO_REMOVE)
             \o ofIssues(Tail(issues))
  IN (IF \E c \in 1..Len(calls) :
           calls[c].cmd = "gh pr comment" /\ calls[c].arg[1] = pr.number
      THEN <<>> ELSE <<Call("gh pr comment", <<pr.number>>)>>)
     \o labels("gh pr edit", pr.number, PR_LABELS_TO_REMOVE)
     \o ofIssues(pr.issues)

\* the commands of one record's fan-out, in the order they are issued
FanOut(pr) ==
  LET labels(kind, id, configured) ==
        IF configured /\ isStable THEN <<Call(kind, <<id>>)>> ELSE <<>>
      RECURSIVE ofIssues(_)
      ofIssues(issues) ==
        IF issues = <<>> THEN <<>>
        ELSE <<Call("gh issue comment", <<Head(issues)>>),
               Call("gh issue close", <<Head(issues)>>)>>
             \o labels("gh issue edit", Head(issues), ISSUE_LABELS_TO_REMOVE)
             \o ofIssues(Tail(issues))
  IN <<Call("gh pr comment", <<pr.number>>)>>
     \o labels("gh pr edit", pr.number, PR_LABELS_TO_REMOVE)
     \o ofIssues(pr.issues)

\* the promises pushed for a fan-out, all pending
Pending(fanOut) == [k \in 1..Len(fanOut) |-> [call |-> fanOut[k], st |-> "pending"]]

\* Notify issuing the fan-out of the next record along with this one's
Notify_TwoAtOnce(records, i, issued) ==
  IF i > Len(records)
  THEN /\ pc' = "exited"
       /\ cursor' = cursor
       /\ promises' = promises
       /\ calls' = issued
  ELSE /\ pc' = "awaitSettled"
       /\ cursor' = i
       /\ promises' = Pending(FanOut(records[i]))
       /\ calls' = issued \o FanOut(records[i])
                     \o (IF i < Len(records) THEN FanOut(records[i + 1]) ELSE <<>>)

\* main from the record at index i on: its fan-out is issued, or the run ends
Notify(records, i, issued) ==
  IF i > Len(records)
  THEN /\ pc' = "exited"
       /\ cursor' = cursor
       /\ promises' = promises
       /\ calls' = issued
  ELSE /\ pc' = "awaitSettled"
       /\ cursor' = i
       /\ promises' = Pending(FanOut(records[i]))
       /\ calls' = issued \o FanOut(records[i])

\* Promise.all resolving with the values last promise first
PromiseAll_Reversed(settled) ==
  [k \in 1..Len(settled) |-> settled[Len(settled) + 1 - k].value]

\* what Promise.all resolves with once every promise is fulfilled: their
\* values in the order of the array it was given
PromiseAll(settled) ==
  [k \in 1..Len(settled) |-> settled[k].value]

\* the filter also dropping a record equal to an earlier one
Defined_Dedup(result) ==
  Unique(SelectSeq(result, LAMBDA pr : pr # Undefined))

\* result.filter((pr) => pr != undefined)
Defined(result) ==
  SelectSeq(result, LAMBDA pr : pr # Undefined)

\* AfterTask without the DRY_RUN exit: the records are always notified
AfterTask_NoDryRun(settled, i, issued) ==
  IF pc # "awaitAll"
  THEN UNCHANGED <<pc, error, prs, cursor, promises>> /\ calls' = issued
  ELSE IF settled[i].st = "rejected"
  THEN Fail(settled[i].value) /\ UNCHANGED <<prs, cursor, promises>> /\ calls' = issued
  ELSE IF \E k \in 1..Len(settled) : settled[k].st # "fulfilled"
  THEN UNCHANGED <<pc, error, prs, cursor, promises>> /\ calls' = issued
  ELSE /\ prs' = Defined(PromiseAll(settled))
       /\ error' = error
       /\ Notify(Defined(PromiseAll(settled)), 1, issued)

\* main after one of the promises handed to Promise.all has changed: the
\* first rejection rejects Promise.all at once, the last fulfilment resolves it
AfterTask(settled, i, issued) ==
  IF pc # "awaitAll"
  THEN UNCHANGED <<pc, error, prs, cursor, promises>> /\ calls' = issued
  ELSE IF settled[i].st = "rejected"
  THEN Fail(settled[i].value) /\ UNCHANGED <<prs, cursor, promises>> /\ calls' = issued
  ELSE IF \E k \in 1..Len(settled) : settled[k].st # "fulfilled"
  THEN UNCHANGED <<pc, error, prs, cursor, promises>> /\ calls' = issued
  ELSE /\ prs' = Defined(PromiseAll(settled))
       /\ error' = error
       /\ IF DRY_RUN
          THEN pc' = "exited" /\ UNCHANGED <<cursor, promises>> /\ calls' = issued
          ELSE Notify(Defined(PromiseAll(settled)), 1, issued)

\* `git log` has answered: findMergedPRs searches the pull request of every
\* commit
LogReturn ==
  /\ pc = "awaitLog"
  /\ LET commits == IF world.commits = <<>> THEN <<"">> ELSE world.commits
     IN IF world.log = "reject"
        THEN Fail("ExecaRejected") /\ UNCHANGED <<calls, gitCommits, tasks>>
        ELSE IF world.log = "stderr"
        THEN Fail("GitLogStderr") /\ UNCHANGED <<calls, gitCommits, tasks>>
        ELSE /\ gitCommits' = commits
             /\ tasks' = [i \in 1..Len(commits) |->
                            Task("prList", commits[i], Undefined, Undefined)]
             /\ calls' = calls \o [i \in 1..Len(commits) |->
                                     Call("gh pr list", <<commits[i]>>)]
             /\ pc' = "awaitAll"
             /\ error' = error
  /\ UNCHANGED <<inputs, scanVars, failures, tagVars, prs, cursor, promises>>

\* `gh pr list` has answered for the commit at index i
PrListReturn(i) ==
  /\ pc # "exited"
  /\ tasks[i].st = "prList"
  /\ LET answer == world.prList[tasks[i].commit]
         commit == tasks[i].commit
         settled ==
           IF answer.res = "reject"
           THEN Task("rejected", commit, Undefined, "ExecaRejected")
           ELSE IF answer.res = "stderr"
           THEN Task("rejected", commit, Undefined, "PrListStderr")
           ELSE IF answer.list = <<>>
           THEN Task("fulfilled", commit, Undefined, Undefined)
           ELSE IF answer.list[1] = JsonNull
           THEN Task("fulfilled", commit, Undefined, Undefined)
           ELSE IF answer.list[1] = Malformed
           THEN Task("rejected", commit, Undefined, "ZodError")
           ELSE IF toLowerCase(answer.list[1].title) \in CHANGESET_PR_TITLES
           THEN Task("fulfilled", commit, Undefined, Undefined)
           ELSE Task("graphql", commit, answer.list[1], Undefined)
         issued == IF settled.st = "graphql"
                   THEN Append(calls, Call("gh api graphql", <<settled.pr.url>>))
                   ELSE calls
     IN /\ tasks' = [tasks EXCEPT ![i] = settled]
        /\ AfterTask([tasks EXCEPT ![i] = settled], i, issued)
  /\ UNCHANGED <<inputs, scanVars, failures, tagVars, gitCommits>>

\* getIssuesLinkedToPullRequest with text on the error stream only logged
getIssuesLinkedToPullRequest_StderrLogged(answer) ==
  IF answer.res = "reject" THEN Throw("ExecaRejected")
  ELSE IF ~answer.valid THEN Throw("UnexpectedGraphqlResult")
  ELSE Return(answer.nodes)

\* getIssuesLinkedToPullRequest from the answer of `gh api graphql` on: the
\* numbers of the nodes, or the error thrown
getIssuesLinkedToPullRequest(answer) ==
  IF answer.res = "reject" THEN Throw("ExecaRejected")
  ELSE IF answer.res = "stderr" THEN Throw("GraphqlStderr")
  ELSE IF ~answer.valid THEN Throw("UnexpectedGraphqlResult")
  ELSE Return(answer.nodes)

\* GraphqlReturn commenting on the pull request as soon as its record is made
GraphqlReturn_NotifyAtOnce(i) ==
  /\ pc # "exited"
  /\ tasks[i].st = "graphql"
  /\ LET commit == tasks[i].commit
         pr == tasks[i].pr
         linked == getIssuesLinkedToPullRequest(world.graph[pr.number])
         linkedIssues == linked.value
         issuesClosedViaBody == getIssuesClosedViaBody(pr.body)
         settled ==
           IF linked.thrown # "none"
           THEN Task("rejected", commit, pr, linked.thrown)
           ELSE Task("fulfilled", commit, pr,
                     [number |-> pr.number,
                      issues |-> uniqueIssues(linkedIssues, issuesClosedViaBody)])
     IN /\ tasks' = [tasks EXCEPT ![i] = settled]
        /\ AfterTask([tasks EXCEPT ![i] = settled], i,
                     Append(calls, Call("gh pr comment", <<pr.number>>)))
  /\ UNCHANGED <<inputs, scanVars, failures, tagVars, gitCommits>>

\* `gh api graphql` has answered for the pull request of the commit at index i
GraphqlReturn(i) ==
  /\ pc # "exited"
  /\ tasks[i].st = "graphql"
  /\ LET commit == tasks[i].commit
         pr == tasks[i].pr
         linked == getIssuesLinkedToPullRequest(world.graph[pr.number])
         linkedIssues == linked.value
         issuesClosedViaBody == getIssuesClosedViaBody(pr.body)
         settled ==
           IF linked.thrown # "none"
           THEN Task("rejected", commit, pr, linked.thrown)
           ELSE Task("fulfilled", commit, pr,
                     [number |-> pr.number,
                      issues |-> uniqueIssues(linkedIssues, issuesClosedViaBody)])
     IN /\ tasks' = [tasks EXCEPT ![i] = settled]
        /\ AfterTask([tasks EXCEPT ![i] = settled], i, calls)
  /\ UNCHANGED <<inputs, scanVars, failures, tagVars, gitCommits>>

\* Settle failing the run at the first rejection, others still pending
Settle_FailFast(k) ==
  /\ pc = "awaitSettled"
  /\ promises[k].st = "pending"
  /\ LET outcome == IF <<promises[k].call.cmd, promises[k].call.arg[1]>> \in world.rejected
                    THEN "rejected" ELSE "fulfilled"
         results == [promises EXCEPT ![k].st = outcome]
         rejections == SelectSeq(results, LAMBDA r : r.st = "rejected")
     IN IF outcome = "fulfilled" /\ \E j \in 1..Len(results) : results[j].st = "pending"
        THEN /\ promises' = results
             /\ UNCHANGED <<pc, error, calls, cursor, failures>>
        ELSE IF Len(rejections) > 0
        THEN /\ Fail("FailedToComment")
             /\ failures' = [j \in 1..Len(rejections) |-> rejections[j].call]
             /\ promises' = results
             /\ UNCHANGED <<calls, cursor>>
        ELSE /\ error' = error
             /\ failures' = failures
             /\ IF cursor + 1 > Len(prs)
                THEN /\ pc' = "exited"
                     /\ promises' = results
                     /\ UNCHANGED <<calls, cursor>>
                ELSE Notify(prs, cursor + 1, calls)
  /\ UNCHANGED <<inputs, scanVars, tagVars, gitCommits, tasks, prs>>

\* the command of the promise at index k of the current fan-out has ended;
\* after the last one main inspects the outcomes and goes on
Settle(k) ==
  /\ pc = "awaitSettled"
  /\ promises[k].st = "pending"
  /\ LET outcome == IF <<promises[k].call.cmd, promises[k].call.arg[1]>> \in world.rejected
                    THEN "rejected" ELSE "fulfilled"
         results == [promises EXCEPT ![k].st = outcome]
         rejections == SelectSeq(results, LAMBDA r : r.st = "rejected")
     IN IF \E j \in 1..Len(results) : results[j].st = "pending"
        THEN /\ promises' = results
             /\ UNCHANGED <<pc, error, calls, cursor, failures>>
        ELSE IF Len(rejections) > 0
        THEN /\ Fail("FailedToComment")
             /\ failures' = [j \in 1..Len(rejections) |-> rejections[j].call]
             /\ promises' = results
             /\ UNCHANGED <<calls, cursor>>
        ELSE /\ error' = error
             /\ failures' = failures
             /\ IF cursor + 1 > Len(prs)
                THEN /\ pc' = "exited"
                     /\ promises' = results
                     /\ UNCHANGED <<calls, cursor>>
                ELSE Notify(prs, cursor + 1, calls)
  /\ UNCHANGED <<inputs, scanVars, tagVars, gitCommits, tasks, prs>>

Next ==
  \/ Start
  \/ TagsReturn
  \/ LogReturn
  \/ \E i \in 1..Len(tasks) : PrListReturn(i)
  \/ \E i \in 1..Len(tasks) : GraphqlReturn(i)
  \/ \E k \in 1..Len(promises) : Settle(k)

Spec == Init /\ [][Next]_vars

(***************************************************************************)
(* main with the forge answering in every way                              *)
(***************************************************************************)
\* the most commits `git log` prints in the explored runs
MaxCommits == 2

\* the commits of the range, in the order `git log` prints them
CommitIds == <<"c1", "c2", "c3">>

\* the outputs of `git log`: nothing, or the first commits of CommitIds
CommitLists == {SubSeq(CommitIds, 1, n) : n \in 0..MaxCommits}

\* the answers of `gh pr list --search <commit>`: failures, no result,
\* results of another shape, a release-bookkeeping pull request ahead of an
\* ordinary one, and pull requests whose bodies close issues
PrListAnswers ==
  { PrListAnswer("reject", <<>>),
    PrListAnswer("stderr", <<>>),
    PrListAnswer("ok", <<>>),
    PrListAnswer("ok", <<Malformed>>),
    PrListAnswer("ok", <<JsonNull>>),
    PrListAnswer("ok", <<PullRequest(20, "CHORE: UPDATE VERSION FOR RELEASE (PRE)",
                                     <<"Fixes", " ", "#", "12">>),
                         PullRequest(10, "feat: x", <<"Closes", " ", "#", "5">>)>>),
    PrListAnswer("ok", <<PullRequest(10, "feat: x", <<"Closes", " ", "#", "5">>)>>),
    PrListAnswer("ok", <<PullRequest(11, "fix: y",
                                     <<"Fixes", " ", "#", "12", " ", "and", " ",
                                       "resolves", " ", "#", "34">>)>>) }

\* the answers of `gh api graphql` for the linked issues of a pull request
GraphAnswers ==
  { GraphAnswer("ok", TRUE, <<12>>),
    GraphAnswer("ok", TRUE, <<>>),
    GraphAnswer("stderr", TRUE, <<>>),
    GraphAnswer("ok", FALSE, <<>>) }

\* the commits searched for: the lines of the output of `git log`, the empty
\* line when it prints nothing
Searched(commits) ==
  IF commits = <<>> THEN {""} ELSE {commits[i] : i \in 1..Len(commits)}

\* the runs explored for the resolution of pull requests: the tags and the
\* commits are listed without error, the forge answers each search and each
\* graph query in any of the ways above
PipelineWorlds ==
  UNION { { [tags |-> "ok", log |-> "ok", commits |-> commits, prList |-> prList,
             graph |-> [n \in {10, 11, 20} |->
                          IF n = 20 THEN GraphAnswer("ok", TRUE, <<5>>)
                          ELSE IF n = 11 THEN g11 ELSE g10],
             rejected |-> {}] :
              prList \in [Searched(commits) -> PrListAnswers],
              g10 \in GraphAnswers \ {GraphAnswer("ok", TRUE, <<12>>)},
              g11 \in GraphAnswers } :
          commits \in CommitLists }

InitPipeline ==
  /\ history = << <<"pkg", "@", "3", ".", "0", ".", "0">>,
                  <<"pkg", "@", "2", ".", "0", ".", "1">> >>
  /\ world \in PipelineWorlds
  /\ PACKAGE_NAME = <<"pkg">>
  /\ INCLUDE_NIGHTLY = FALSE
  /\ DRY_RUN \in BOOLEAN
  /\ PR_LABELS_TO_REMOVE = DRY_RUN
  /\ ISSUE_LABELS_TO_REMOVE = DRY_RUN
  /\ GITHUB_REPOSITORY = TRUE
  /\ prBody = <<>>
  /\ Idle

SpecPipeline == InitPipeline /\ [][Next]_vars

(***************************************************************************)
(* main notifying for releases of every kind                               *)
(***************************************************************************)
\* tag histories whose latest is a stable version, a pre-release, a nightly
\* and a nightly-prefixed name that is not a version
NotifyHistories ==
  { << <<"pkg", "@", "3", ".", "0", ".", "0">>,
       <<"pkg", "@", "2", ".", "0", ".", "1">> >>,
    << <<"pkg", "@", "3", ".", "0", ".", "0", "-", "pre", ".", "0">>,
       <<"pkg", "@", "2", ".", "0", ".", "1">> >>,
    << NightlyPrefix \o <<"abc">>,
       <<"pkg", "@", "2", ".", "0", ".", "1">> >>,
    << NightlyPrefix \o <<"a", "_", "b">>,
       <<"pkg", "@", "2", ".", "0", ".", "1">> >> }

\* the answers of `gh pr list` in the runs that notify: pull request #10
\* closing issue 5 in its body, pull request #11 closing nothing in its body,
\* no result, and text on the error stream
NotifyAnswers ==
  { PrListAnswer("ok", <<PullRequest(10, "feat: x", <<"Closes", " ", "#", "5">>)>>),
    PrListAnswer("ok", <<PullRequest(11, "fix: y", <<>>)>>),
    PrListAnswer("ok", <<>>),
    PrListAnswer("stderr", <<>>) }

\* the commands the forge refuses (execa rejects), by command and number
RejectedSets ==
  { {},
    {<<"gh pr comment", 10>>},
    {<<"gh pr comment", 11>>},
    {<<"gh issue comment", 5>>, <<"gh issue close", 5>>} }

\* the runs explored for notification: the graph links issue 5 to #11, issue 5
\* may carry the keep-open label, the forge may refuse some commands; and one
\* run each in which `git tag` and `git log` write to the error stream
NotifyWorlds ==
  UNION { { [tags |-> "ok", log |-> "ok", commits |-> commits, prList |-> prList,
             graph |-> [n \in {10, 11} |->
                          GraphAnswer("ok", TRUE, IF n = 11 THEN <<5>> ELSE <<>>)],
             rejected |-> rejected,
             keepOpen |-> keepOpen] :
              prList \in [Searched(commits) -> NotifyAnswers],
              rejected \in RejectedSets,
              keepOpen \in {{}, {5}} } :
          commits \in CommitLists }
    \cup {[QuietWorld EXCEPT !.tags = "stderr"], [QuietWorld EXCEPT !.log = "stderr"]}

InitNotify ==
  /\ history \in NotifyHistories
  /\ world \in NotifyWorlds
  /\ PACKAGE_NAME = <<"pkg">>
  /\ INCLUDE_NIGHTLY = TRUE
  /\ DRY_RUN = FALSE
  /\ PR_LABELS_TO_REMOVE \in BOOLEAN
  /\ ISSUE_LABELS_TO_REMOVE \in BOOLEAN
  /\ GITHUB_REPOSITORY \in BOOLEAN
  /\ prBody = <<>>
  /\ Idle

SpecNotify == InitNotify /\ [][Next]_vars

(***************************************************************************)
(* getTags of the library                                                  *)
(***************************************************************************)
\* array[i] of JavaScript, i counted from 0: undefined past the end
At(array, i) == IF i + 1 <= Len(array) THEN array[i + 1] ELSE Undefined

\* the previous tag getTags settles on
LibPrevious(tags) ==
  LET kind == Classify(tags[1].clean)
      preRelease == semver_prerelease(tags[1].clean)
      stableTags == getStableTags(tags)
  IN IF kind.isPreRelease
     THEN IF preRelease # Null /\ Join(preRelease, ".") = <<"pre", ".", "0">>
          THEN At(stableTags, 0)
          ELSE At(tags, 1)
     ELSE IF kind.isStable THEN At(stableTags, 1)
     ELSE At(tags, 1)

\* getTags(PACKAGE_NAME, INCLUDE_NIGHTLY) is called and lists the tags
LibGetTags ==
  /\ pc = "start"
  /\ pc' = "libAwaitTags"
  /\ calls' = Append(calls, Call("git tag", <<>>))
  /\ UNCHANGED <<inputs, scanVars, failures, error, tagVars, gitCommits, tasks, prs, cursor, promises>>

\* `git tag` has answered: getTags returns { latest, previous, isPreRelease,
\* isStable, isNightly } or throws
LibTagsReturn ==
  /\ pc = "libAwaitTags"
  /\ LET tags == ToTags(Lines(GitTagOutput(history, PACKAGE_NAME, INCLUDE_NIGHTLY)),
                        PACKAGE_NAME)
         kind == Classify(tags[1].clean)
     IN IF world.tags = "reject"
        THEN Fail("ExecaRejected") /\ UNCHANGED tagVars
        ELSE IF world.tags = "stderr"
        THEN Fail("GitTagsStderr") /\ UNCHANGED tagVars
        ELSE /\ gitTags' = tags
             /\ latest' = tags[1]
             /\ previous' = LibPrevious(tags)
             /\ isStable' = kind.isStable
             /\ isNightly' = kind.isNightly
             /\ isPreRelease' = kind.isPreRelease
             /\ pc' = "libReturned"
             /\ error' = error
  /\ UNCHANGED <<inputs, scanVars, failures, calls, gitCommits, tasks, prs, cursor, promises>>

InitLib ==
  /\ history \in TagHistories
  /\ world \in BoundaryWorlds
  /\ PACKAGE_NAME \in {<<"pkg">>, <<>>}
  /\ INCLUDE_NIGHTLY \in BOOLEAN
  /\ DRY_RUN = FALSE
  /\ PR_LABELS_TO_REMOVE = TRUE
  /\ ISSUE_LABELS_TO_REMOVE = TRUE
  /\ GITHUB_REPOSITORY = TRUE
  /\ prBody = <<>>
  /\ Idle

NextLib ==
  \/ LibGetTags
  \/ LibTagsReturn

SpecLib == InitLib /\ [][NextLib]_vars

(***************************************************************************)
(* getIssuesClosedViaBody called on its own                                *)
(***************************************************************************)
\* the longest body explored, in phrases
MaxPhrases == 3

\* pieces of pull request bodies: closing references in several spellings,
\* with a colon, with a tab or a newline for the whitespace, and text that
\* closes nothing
Phrases ==
  { <<"Fixes", " ", "#", "12">>,
    <<" ", "and", " ">>,
    <<"resolves", " ", "#", "34">>,
    <<"CLOSES", ":", " ", "#", "5">>,
    <<"fixed", "\t", "#", "12">>,
    <<"close", "\n", "#", "34">>,
    <<"see", " ", "#", "5">>,
    <<"Resolves", " ", " ", "#", "5">> }

\* the bodies made of n phrases
RECURSIVE BodiesOf(_)
BodiesOf(n) ==
  IF n = 0 THEN {<<>>}
  ELSE {b \o p : b \in BodiesOf(n - 1), p \in Phrases}

\* the bodies explored: the empty body and up to MaxPhrases phrases in a row
Bodies == UNION {BodiesOf(n) : n \in 0..MaxPhrases}

InitBody ==
  /\ history = <<>>
  /\ world = QuietWorld
  /\ PACKAGE_NAME = <<"pkg">>
  /\ INCLUDE_NIGHTLY = FALSE
  /\ DRY_RUN = TRUE
  /\ PR_LABELS_TO_REMOVE = TRUE
  /\ ISSUE_LABELS_TO_REMOVE = TRUE
  /\ GITHUB_REPOSITORY = TRUE
  /\ prBody \in Bodies
  /\ Idle

\* getIssuesClosedViaBody(prBody) is called and returns
Scan ==
  /\ pc = "start"
  /\ pc' = "scanned"
  /\ issuesMatch' = getIssuesClosedViaBody(prBody)
  /\ UNCHANGED <<inputs, prBody, failures, error, calls, tagVars, gitCommits, tasks, prs,
                 cursor, promises>>

NextBody == Scan

SpecBody == InitBody /\ [][NextBody]_vars

(***************************************************************************)
(* main of the library                                                     *)
(***************************************************************************)
\* getTags has returned: main calls getCommits(tags.previous, tags.latest),
\* which reads previous.raw and lists the commits
LibGetCommits ==
  /\ pc = "libReturned"
  /\ IF previous = Undefined
     THEN Fail("TypeError") /\ calls' = calls
     ELSE /\ pc' = "awaitLog"
          /\ error' = error
          /\ calls' = Append(calls, Call("git log", <<previous.raw, latest.raw>>))
  /\ UNCHANGED <<inputs, scanVars, failures, tagVars, gitCommits, tasks, prs, cursor,
                 promises>>

\* the runs of the library's main: the forge answers and refuses nothing
LibWorlds ==
  {w \in NotifyWorlds :
     w.tags = "ok" /\ w.log = "ok" /\ w.rejected = {} /\ w.keepOpen = {}}

InitLibMain ==
  /\ history \in NotifyHistories
  /\ world \in LibWorlds
  /\ PACKAGE_NAME = <<"pkg">>
  /\ INCLUDE_NIGHTLY = TRUE
  /\ DRY_RUN = FALSE
  /\ PR_LABELS_TO_REMOVE \in BOOLEAN
  /\ ISSUE_LABELS_TO_REMOVE \in BOOLEAN
  /\ GITHUB_REPOSITORY = TRUE
  /\ prBody = <<>>
  /\ Idle

\* getTags, getCommits, findMergedPRs and commentOnIssuesAndPRs in turn; the
\* last three are the code of main of src/index.ts moved into functions
NextLibMain ==
  \/ LibGetTags
  \/ LibTagsReturn
  \/ LibGetCommits
  \/ LogReturn
  \/ \E i \in 1..Len(tasks) : PrListReturn(i)
  \/ \E i \in 1..Len(tasks) : GraphqlReturn(i)
  \/ \E k \in 1..Len(promises) : Settle(k)

SpecLibMain == InitLibMain /\ [][NextLibMain]_vars

(***************************************************************************)
(* Properties of boundary resolution in main                               *)
(***************************************************************************)
\* the tags have been listed and classified
Classified == gitTags # <<>>

\* boundary resolution has succeeded: main went on to list the commits
Resolved == \E i \in 1..Len(calls) : calls[i].cmd = "git log"

\* a stable version: a semantic version without pre-release part
StableVersion(clean) == SemVer(clean).valid /\ SemVer(clean).prerelease = <<>>

\* a nightly tag: it begins with the literal prefix
NightlyTag(clean) ==
  /\ Len(clean) >= Len(NightlyPrefix)
  /\ \A i \in 1..Len(NightlyPrefix) : clean[i] = NightlyPrefix[i]

\* a pre-release whose identifiers are exactly pre.N
PreN(clean, n) ==
  SemVer(clean).valid /\ SemVer(clean).prerelease = <<<<"pre">>, String(n)>>

\* an x.0.0 version
MajorBoundary(clean) == SemVer(clean).minor = 0 /\ SemVer(clean).patch = 0

\* the tag at index j is the most recent stable tag of the given major
\* version among the tags from index from on
MostRecentStable(j, major, from) ==
  /\ j \in from..Len(gitTags)
  /\ StableVersion(gitTags[j].clean)
  /\ SemVer(gitTags[j].clean).major = major
  /\ \A k \in from..(j - 1) :
       ~(StableVersion(gitTags[k].clean) /\ SemVer(gitTags[k].clean).major = major)

\* the errors boundary resolution throws
BoundaryErrors ==
  {"NoPreviousStableRelease", "UnableToParsePrerelease", "PriorPrereleaseNotFound",
   "InvalidVersion"}

\* C1: when latest is stable and not an x.0.0 version, the resolved previous
\* is the most recent stable tag other than latest whose major version is
\* that of latest
C1_StableNonBoundary ==
  (Resolved /\ StableVersion(latest.clean) /\ ~MajorBoundary(latest.clean))
    => \E j \in 2..Len(gitTags) :
         /\ previous = gitTags[j]
         /\ MostRecentStable(j, SemVer(latest.clean).major, 2)

\* C2: when resolution succeeds on at least two tags, previous and latest
\* are distinct tags of the list and latest comes first (is newer)
C2_ReleaseDelta ==
  (Resolved /\ Len(gitTags) >= 2)
    => \E i, j \in 1..Len(gitTags) :
         /\ i < j
         /\ latest = gitTags[i]
         /\ previous = gitTags[j]
         /\ previous # latest

\* C4: when latest is a stable x.0.0 version, the resolved previous is the
\* most recent stable tag of major version x-1, and never one of major x
C4_MajorBoundary ==
  (Resolved /\ StableVersion(latest.clean) /\ MajorBoundary(latest.clean))
    => /\ \E j \in 1..Len(gitTags) :
            /\ previous = gitTags[j]
            /\ MostRecentStable(j, SemVer(latest.clean).major - 1, 1)
       /\ SemVer(previous.clean).major # SemVer(latest.clean).major

\* C4 witness: an x.0.0 latest resolved past a newer tag of another major
C4_Witness ==
  /\ Resolved
  /\ StableVersion(latest.clean) /\ MajorBoundary(latest.clean)
  /\ Len(gitTags) = 3 /\ previous = gitTags[3]
  /\ StableVersion(gitTags[2].clean)

\* C5: when latest is a nightly tag, previous is the second tag of the
\* sequence and no stable or pre-release lookup takes place
C5_Nightly ==
  (Classified /\ NightlyTag(latest.clean))
    => /\ previous = Second(gitTags)
       /\ error \notin BoundaryErrors

\* C6: when latest is a pre.0 pre-release, the resolved previous is the most
\* recent stable tag of major(latest), or of major(latest)-1 when the minor
\* and patch of latest are both 0
C6_FirstPreRelease ==
  (Resolved /\ PreN(latest.clean, 0))
    => \E j \in 1..Len(gitTags) :
         /\ previous = gitTags[j]
         /\ MostRecentStable(j, IF MajorBoundary(latest.clean)
                                THEN SemVer(latest.clean).major - 1
                                ELSE SemVer(latest.clean).major, 1)

\* C6 witness: a pre.0 latest resolved past a newer tag that does not match
C6_Witness ==
  /\ Resolved
  /\ PreN(latest.clean, 0)
  /\ ~MajorBoundary(latest.clean)
  /\ Len(gitTags) = 3
  /\ previous = gitTags[3]

\* the raw name with its trailing ordinal n replaced by n - 1
Decremented(raw, n) == SubSeq(raw, 1, Len(raw) - 1) \o String(n - 1)

\* C7: when latest is a pre-release pre.N with N > 0, previous is the tag
\* whose raw name is that of latest with the ordinal decremented, wherever it
\* stands in the list; when there is no such tag, resolution fails with the
\* prior-prerelease-not-found error
C7_LaterPreRelease ==
  \A n \in 1..3 :
    (Classified /\ PreN(latest.clean, n))
      => IF \E j \in 1..Len(gitTags) : gitTags[j].raw = Decremented(latest.raw, n)
         THEN /\ Resolved
              /\ previous.raw = Decremented(latest.raw, n)
              /\ \E j \in 1..Len(gitTags) : gitTags[j] = previous
         ELSE /\ ~Resolved
              /\ error = "PriorPrereleaseNotFound"

\* C7 witness: the decremented tag is found although it is not next in line
C7_Witness ==
  /\ Resolved
  /\ PreN(latest.clean, 1)
  /\ Len(gitTags) = 3
  /\ previous = gitTags[3]

\* C8: when latest is stable or pre.0 and no stable tag (other than latest)
\* has the required major version, resolution fails with the
\* no-previous-stable-release error
C8_NoPreviousStable ==
  (/\ Classified
   /\ StableVersion(latest.clean) \/ PreN(latest.clean, 0)
   /\ ~\E j \in 2..Len(gitTags) :
         MostRecentStable(j, IF MajorBoundary(latest.clean)
                             THEN SemVer(latest.clean).major - 1
                             ELSE SemVer(latest.clean).major, 2))
    => /\ ~Resolved
       /\ error = "NoPreviousStableRelease"

\* C9: after a boundary resolution error no commit listing, pull request
\* search or forge mutation is ever issued
C9_AbortBeforeCommits ==
  error \in BoundaryErrors
    => \A i \in 1..Len(calls) : calls[i].cmd = "git tag"

\* C9 witness: a run that failed in boundary resolution
C9_Witness ==
  /\ pc = "failed"
  /\ error \in BoundaryErrors \ {"InvalidVersion"}
  /\ Len(gitTags) >= 2

\* C10: exactly one of the three flags holds of a classified tag, and a tag
\* beginning with the nightly prefix is never classified stable
C10_ExactlyOneKind ==
  Classified
    => /\ Cardinality({f \in {"s", "n", "p"} :
                         \/ f = "s" /\ isStable
                         \/ f = "n" /\ isNightly
                         \/ f = "p" /\ isPreRelease}) = 1
       /\ NightlyTag(latest.clean) => ~isStable

(***************************************************************************)
(* Properties of getTags of the library                                    *)
(***************************************************************************)
\* the tag names the repository lists for the package, newest first
Tracked ==
  SelectSeq(history, LAMBDA name :
    /\ Len(name) >= Len(PACKAGE_NAME) + 1
    /\ \A i \in 1..Len(PACKAGE_NAME) : name[i] = PACKAGE_NAME[i]
    /\ name[Len(PACKAGE_NAME) + 1] = "@")

\* the tag { raw, clean } of a tag name of the package
Tagged(name) ==
  [raw |-> name, clean |-> SubSeq(name, Len(PACKAGE_NAME) + 2, Len(name))]

\* C3: getTags(packageName, false) on a newest tracked tag that is a stable
\* version returns that tag as latest, the next most recent stable tag as
\* previous, each with clean = raw without "<packageName>@", and the flags
\* isStable = TRUE, isNightly = FALSE, isPreRelease = FALSE
C3_LibStable ==
  (/\ pc = "libReturned"
   /\ PACKAGE_NAME # <<>> /\ ~INCLUDE_NIGHTLY
   /\ Tracked # <<>>
   /\ StableVersion(Tagged(Tracked[1]).clean))
    => /\ latest = Tagged(Tracked[1])
       /\ PACKAGE_NAME \o <<"@">> \o latest.clean = latest.raw
       /\ isStable /\ ~isNightly /\ ~isPreRelease
       /\ \A j \in 2..Len(Tracked) :
            (/\ StableVersion(Tagged(Tracked[j]).clean)
             /\ \A k \in 2..(j - 1) : ~StableVersion(Tagged(Tracked[k]).clean))
              => previous = Tagged(Tracked[j])

(***************************************************************************)
(* Properties of input rejection in main                                   *)
(***************************************************************************)
\* C11: a latest tag whose clean string is neither a valid semantic version
\* nor nightly-prefixed is never classified stable and never leads to a
\* resolved (previous, latest) pair
C11_InvalidLatestRejected ==
  (Classified /\ ~SemVer(latest.clean).valid /\ ~NightlyTag(latest.clean))
    => /\ ~isStable
       /\ ~Resolved

\* C12: when the tracked tag list has fewer than 2 entries, boundary
\* resolution ends in an error, whatever the kind of latest: the run fails
\* and the commits are never asked for
C12_FewerThanTwoTags ==
  (Classified /\ Len(GitTagOutput(history, PACKAGE_NAME, INCLUDE_NIGHTLY)) < 2)
    => /\ pc = "failed"
       /\ ~Resolved

(***************************************************************************)
(* Properties of getIssuesClosedViaBody                                    *)
(***************************************************************************)
\* the spellings of the closing keywords, letter case ignored
KeywordSpellings == ClosingKeywords \cup {"Fixes", "CLOSES", "Resolves"}

\* the issue numbers referenced in the explored bodies
IssueNumbers == {5, 12, 34}

\* the decimal digits of an issue number
Digits(n) == CASE n = 5 -> "5" [] n = 12 -> "12" [] n = 34 -> "34"

\* at position i of the body stands a closing keyword, an optional colon, one
\* whitespace character and '#' with the digits of issue n
ClosingReference(body, i, n) ==
  /\ body[i] \in KeywordSpellings
  /\ \E j \in {i + 1, i + 2} :
       /\ j = i + 2 => body[i + 1] = ":"
       /\ j + 2 <= Len(body)
       /\ body[j] \in Whitespace
       /\ body[j + 1] = "#"
       /\ body[j + 2] = Digits(n)

\* C13: getIssuesClosedViaBody returns one issue number per occurrence of a
\* closing keyword in any letter case, with an optional colon, followed by a
\* whitespace character and '#<digits>': every issue is returned as many
\* times as it is referenced and nothing else is returned; the empty body
\* and a body without a match give the empty list
C13_OnePerOccurrence ==
  pc = "scanned"
    => /\ \A n \in IssueNumbers :
            Cardinality({k \in 1..Len(issuesMatch) : issuesMatch[k] = n})
              = Cardinality({i \in 1..Len(prBody) : ClosingReference(prBody, i, n)})
       /\ \A k \in 1..Len(issuesMatch) : issuesMatch[k] \in IssueNumbers

(***************************************************************************)
(* Properties of findMergedPRs and of the dry run                          *)
(***************************************************************************)
\* the elements of a list
Elements(list) == {list[k] : k \in 1..Len(list)}

\* findMergedPRs has returned its list of records
MergedPRsFound ==
  /\ Len(tasks) > 0
  /\ \A i \in 1..Len(tasks) : tasks[i].st = "fulfilled"

\* the task at index i has emitted a record
Emitted(i) ==
  /\ tasks[i].st = "fulfilled"
  /\ tasks[i].value # Undefined

\* C14: in every record emitted by findMergedPRs the issues list holds no
\* number twice and is, as a set, the union of the issues the graph links to
\* the pull request and the issues scanned from its body
C14_IssuesUnion ==
  /\ \A i \in 1..Len(tasks) :
       Emitted(i)
         => LET issues == tasks[i].value.issues
                pr == tasks[i].pr
            IN /\ \A k, l \in 1..Len(issues) : k # l => issues[k] # issues[l]
               /\ Elements(issues)
                    = Elements(world.graph[pr.number].nodes)
                        \cup Elements(getIssuesClosedViaBody(pr.body))
  /\ \A k \in 1..Len(prs) : \E i \in 1..Len(tasks) :
       Emitted(i) /\ prs[k] = tasks[i].value

\* C14 witness: graph-linked {12} and body-scanned {12, 34} gave {12, 34}
C14_Witness ==
  /\ MergedPRsFound
  /\ \E k \in 1..Len(prs) :
       /\ prs[k].issues = <<12, 34>>
       /\ world.graph[prs[k].number].nodes = <<12>>

\* the two release-bookkeeping titles in the letter cases that occur
ChangesetTitleSpellings ==
  {"chore: update version for release",
   "chore: update version for release (pre)",
   "Chore: Update Version For Release",
   "CHORE: UPDATE VERSION FOR RELEASE (PRE)"}

\* the search of the commit has answered with a list whose first element is
\* a pull request
HasFirstPr(commit) ==
  /\ world.prList[commit].res = "ok"
  /\ world.prList[commit].list # <<>>
  /\ world.prList[commit].list[1] \notin {Malformed, JsonNull}

\* the first pull request the search of the commit finds
FirstPr(commit) == world.prList[commit].list[1]

\* the first pull request of the commit is a release-bookkeeping one
ChangesetFirst(commit) ==
  HasFirstPr(commit) /\ FirstPr(commit).title \in ChangesetTitleSpellings

\* C15: for a commit whose first matching pull request has one of the two
\* bookkeeping titles, in any letter case, findMergedPRs emits no record and
\* does not issue the linked-issue graph query, linked issues or not
C15_ChangesetSkipped ==
  \A i \in 1..Len(tasks) :
    ChangesetFirst(tasks[i].commit)
      => /\ tasks[i].st \in {"prList", "fulfilled"}
         /\ tasks[i].value = Undefined
         /\ \A c \in 1..Len(calls) :
              calls[c].cmd = "gh api graphql"
                => calls[c].arg[1] # FirstPr(tasks[i].commit).url
         /\ \A k \in 1..Len(prs) : prs[k].number # FirstPr(tasks[i].commit).number

\* C15 witness: the search of a commit found a bookkeeping pull request with
\* linked issues and closing references, and findMergedPRs has returned
C15_Witness ==
  /\ MergedPRsFound
  /\ \E i \in 1..Len(tasks) :
       /\ ChangesetFirst(tasks[i].commit)
       /\ world.graph[FirstPr(tasks[i].commit).number].nodes # <<>>
       /\ FirstPr(tasks[i].commit).body # <<>>

\* the search of the commit finds a pull request that passes the title filter
Survives(commit) ==
  HasFirstPr(commit) /\ FirstPr(commit).title \notin ChangesetTitleSpellings

\* C16: findMergedPRs returns exactly one record per input commit whose
\* search finds a pull request that passes the title filter and nothing for
\* the other commits; two commits with the same pull request give two records
C16_OneRecordPerCommit ==
  MergedPRsFound
    => /\ Len(prs) = Cardinality({i \in 1..Len(gitCommits) : Survives(gitCommits[i])})
       /\ \A n \in {10, 11, 20} :
            Cardinality({k \in 1..Len(prs) : prs[k].number = n})
              = Cardinality({i \in 1..Len(gitCommits) :
                               /\ Survives(gitCommits[i])
                               /\ FirstPr(gitCommits[i]).number = n})

\* C16 witness: commits [c1, c2], c1 with pull request #10 whose body is
\* 'Closes #5', c2 without pull request, gave the single record {10, {5}}
C16_Witness ==
  /\ MergedPRsFound
  /\ gitCommits = <<"c1", "c2">>
  /\ world.prList["c2"].list = <<>>
  /\ prs = <<[number |-> 10, issues |-> <<5>>]>>

\* the record of a commit whose pull request passes the filter
RecordOf(commit) ==
  [number |-> FirstPr(commit).number,
   issues |-> Unique(world.graph[FirstPr(commit).number].nodes
                       \o getIssuesClosedViaBody(FirstPr(commit).body))]

\* the records of the commits, in the order of the commits
RECURSIVE InCommitOrder(_)
InCommitOrder(commits) ==
  IF commits = <<>> THEN <<>>
  ELSE (IF Survives(Head(commits)) THEN <<RecordOf(Head(commits))>> ELSE <<>>)
       \o InCommitOrder(Tail(commits))

\* C17: in whatever order the searches and graph queries of the commits
\* answer, findMergedPRs returns the same list: the records in the order of
\* the input commits
C17_CommitOrder ==
  MergedPRsFound => prs = InCommitOrder(gitCommits)

\* C17 witness: the search of the second commit answered before that of the
\* first (its graph query was issued first) and the records are returned in
\* the order of the commits
C17_Witness ==
  /\ MergedPRsFound
  /\ Len(prs) = 2
  /\ prs[1].number # prs[2].number
  /\ \E c, d \in 1..Len(calls) :
       /\ c < d
       /\ calls[c].cmd = "gh api graphql" /\ calls[c].arg[1] = prs[2].number
       /\ calls[d].cmd = "gh api graphql" /\ calls[d].arg[1] = prs[1].number

\* the search of the commit at index i has answered with text on its error
\* stream
SearchStderr(i) ==
  /\ tasks[i].st # "prList"
  /\ world.prList[tasks[i].commit].res = "stderr"

\* the graph query of the commit at index i has answered with text on its
\* error stream
GraphStderr(i) ==
  /\ tasks[i].st \notin {"prList", "graphql"}
  /\ tasks[i].pr # Undefined
  /\ world.graph[tasks[i].pr.number].res = "stderr"

\* the commands that change something on the forge
Mutations ==
  {"gh pr comment", "gh pr edit", "gh issue comment", "gh issue close",
   "gh issue edit"}

\* C18: once the search or the graph query of any commit has answered with
\* text on its error stream, the run has failed: findMergedPRs returns no
\* list of records and no notification is sent
C18_StderrFailsRun ==
  (\E i \in 1..Len(tasks) : SearchStderr(i) \/ GraphStderr(i))
    => /\ pc = "failed"
       /\ prs = <<>>
       /\ \A c \in 1..Len(calls) : calls[c].cmd \notin Mutations

\* C18 witness: a run that notifies has failed on the error stream of one
\* commit's graph query while another commit had its record
C18_Witness ==
  /\ ~DRY_RUN
  /\ pc = "failed"
  /\ \E i, j \in 1..Len(tasks) : GraphStderr(i) /\ Emitted(j)

\* C19: a first search result or a graph response of another shape than
\* expected makes the run fail, and the commit's resolution ends in an error
\* instead of 'no pull request' or 'no linked issues'
C19_ShapeMismatchFails ==
  \A i \in 1..Len(tasks) :
    (\/ /\ tasks[i].st # "prList"
        /\ world.prList[tasks[i].commit].res = "ok"
        /\ world.prList[tasks[i].commit].list # <<>>
        /\ world.prList[tasks[i].commit].list[1] \in {Malformed, JsonNull}
     \/ /\ tasks[i].st \notin {"prList", "graphql"}
        /\ tasks[i].pr # Undefined
        /\ world.graph[tasks[i].pr.number].res = "ok"
        /\ ~world.graph[tasks[i].pr.number].valid)
      => /\ tasks[i].st = "rejected"
         /\ pc = "failed"

\* C20: with DRY_RUN set only read commands are ever issued, no comment, close
\* or label edit, and once findMergedPRs has returned the run has ended
\* without error
C20_DryRunSafety ==
  DRY_RUN
    => /\ \A c \in 1..Len(calls) :
            calls[c].cmd \in {"git tag", "git log", "gh pr list", "gh api graphql"}
       /\ MergedPRsFound => (pc = "exited" /\ error = "none")

\* C20 witness: a dry run with labels configured has ended with two records,
\* one of them with issues
C20_Witness ==
  /\ DRY_RUN
  /\ PR_LABELS_TO_REMOVE /\ ISSUE_LABELS_TO_REMOVE /\ isStable
  /\ pc = "exited"
  /\ Len(prs) = 2
  /\ prs[1].issues # <<>>

(***************************************************************************)
(* Properties of the notifier                                              *)
(***************************************************************************)
\* the command has been issued for the pull request or issue of that number
Issued(cmd, number) ==
  \E c \in 1..Len(calls) : calls[c].cmd = cmd /\ calls[c].arg[1] = number

\* C21: a 'pr edit --remove-label' is issued for a notified record exactly
\* when a pull request label is configured and the release is stable, an
\* 'issue edit --remove-label' for an issue of a notified record exactly when
\* an issue label is configured and the release is stable; for a pre-release
\* or nightly latest no label edit is ever issued
C21_LabelsOnlyWhenStable ==
  /\ \A k \in 1..cursor :
       /\ Issued("gh pr edit", prs[k].number)
            <=> (PR_LABELS_TO_REMOVE /\ StableVersion(latest.clean))
       /\ \A m \in 1..Len(prs[k].issues) :
            Issued("gh issue edit", prs[k].issues[m])
              <=> (ISSUE_LABELS_TO_REMOVE /\ StableVersion(latest.clean))
  /\ \A c \in 1..Len(calls) :
       calls[c].cmd \in {"gh pr edit", "gh issue edit"}
         => /\ StableVersion(latest.clean)
            /\ ~NightlyTag(latest.clean)

\* C22: every issue of a notified record is commented on and is closed
\* unless it carries the keep-open label; an issue carrying that label never
\* receives an 'issue close'
C22_KeepOpenLabel ==
  /\ \A k \in 1..cursor : \A m \in 1..Len(prs[k].issues) :
       /\ Issued("gh issue comment", prs[k].issues[m])
       /\ prs[k].issues[m] \notin world.keepOpen
            => Issued("gh issue close", prs[k].issues[m])
  /\ \A c \in 1..Len(calls) :
       calls[c].cmd = "gh issue close" => calls[c].arg[1] \notin world.keepOpen

\* every promise of the current fan-out has settled
AllSettled == \A k \in 1..Len(promises) : promises[k].st # "pending"

\* the commands of the current fan-out that the forge refused
Refused ==
  {promises[k].call : k \in {j \in 1..Len(promises) : promises[j].st = "rejected"}}

\* C23: the commands of a record's fan-out are all issued before any is
\* awaited; a rejection among them leaves the others to be issued and to
\* settle; once all have settled the run fails exactly when one was rejected,
\* and reports every rejected command of the fan-out; nothing is undone
C23_FanOutJoin ==
  cursor >= 1
    => LET fanOut == FanOut(prs[cursor])
       IN /\ [k \in 1..Len(promises) |-> promises[k].call] = fanOut
          /\ Len(calls) >= Len(fanOut)
          /\ SubSeq(calls, Len(calls) - Len(fanOut) + 1, Len(calls)) = fanOut
          /\ pc = "failed" => AllSettled
          /\ AllSettled
               => /\ (pc = "failed") <=> (Refused # {})
                  /\ Elements(failures) = Refused
                  /\ Len(failures) = Cardinality(Refused)

\* C23 witness: a fan-out with two refused commands and others that went
\* through has failed the run, both reported
C23_Witness ==
  /\ pc = "failed"
  /\ error = "FailedToComment"
  /\ Len(failures) = 2
  /\ \E k \in 1..Len(promises) : promises[k].st = "fulfilled"

\* C24: when the resolution of one commit fails in findMergedPRs, the failure
\* reaches main only after the resolutions of all other commits have settled,
\* never while one of them is in flight
C24_NoShortCircuit ==
  (pc = "failed" /\ tasks # <<>>)
    => \A i \in 1..Len(tasks) : tasks[i].st \in {"fulfilled", "rejected"}

\* C25: when GITHUB_REPOSITORY is absent the run fails at startup: no git
\* tag listing, no commit listing and no forge call is ever made
C25_RepositoryRequired ==
  ~GITHUB_REPOSITORY
    => /\ calls = <<>>
       /\ pc \in {"start", "failed"}

\* C26: when `git log` lists no commit between previous and latest the run
\* fails, and no pull request search is made, not for the empty string either
C26_EmptyRangeFails ==
  (world.commits = <<>> /\ world.log = "ok")
    => /\ \A c \in 1..Len(calls) : calls[c].cmd # "gh pr list"
       /\ pc \notin {"start", "awaitTags", "awaitLog"} => pc = "failed"

\* C27: for every match of the body scan, whether a space, a tab or a newline
\* stands before '#', the value extracted is the issue number written after
\* '#', never NaN: as many values as references, each a positive issue number
C27_ExtractsIssueNumber ==
  pc = "scanned"
    => /\ \A k \in 1..Len(issuesMatch) :
            issuesMatch[k] # NaN /\ issuesMatch[k] > 0
       /\ Len(issuesMatch)
            = Cardinality({i \in 1..Len(prBody) :
                             \E n \in IssueNumbers : ClosingReference(prBody, i, n)})

\* the forge-mutating commands issued so far, in order
MutatingCalls == SelectSeq(calls, LAMBDA call : call.cmd \in Mutations)

\* the fan-outs of the first k records, one after the other
RECURSIVE FanOuts(_)
FanOuts(k) == IF k = 0 THEN <<>> ELSE FanOuts(k - 1) \o FanOut(prs[k])

\* C28: the mutating commands issued are exactly the fan-outs of the records
\* up to the one being notified, in record order, and every command of the
\* records before it went through: after a rejection nothing is issued for a
\* later record
C28_RecordsInTurn ==
  /\ MutatingCalls = FanOuts(cursor)
  /\ \A j \in 1..(cursor - 1) : \A k \in 1..Len(FanOut(prs[j])) :
       <<FanOut(prs[j])[k].cmd, FanOut(prs[j])[k].arg[1]>> \notin world.rejected
  /\ (cursor >= 1 /\ ~AllSettled) => pc = "awaitSettled"

\* C28 witness: the fan-out of the first of two records held a rejection and
\* the run ended there
C28_Witness ==
  /\ pc = "failed"
  /\ error = "FailedToComment"
  /\ cursor = 1
  /\ Len(prs) = 2

\* C29: a mutating command is issued only after the tags and the commits
\* were listed without error and every commit's resolution has ended well,
\* and no read command follows a mutating one; a run that failed before
\* notification has issued no mutating command
C29_ReadBeforeWrite ==
  /\ MutatingCalls # <<>>
       => /\ world.tags = "ok" /\ world.log = "ok"
          /\ MergedPRsFound
          /\ \A c, d \in 1..Len(calls) :
               (calls[c].cmd \in Mutations /\ calls[d].cmd \notin Mutations) => d < c
  /\ (pc = "failed" /\ error # "FailedToComment") => MutatingCalls = <<>>

\* C29 witness: a live run failed on the search of one commit after another
\* commit had its record, and nothing was notified
C29_Witness ==
  /\ ~DRY_RUN
  /\ pc = "failed"
  /\ error = "PrListStderr"
  /\ \E i \in 1..Len(tasks) : Emitted(i)

\* the number of commands cmd issued for that number
TimesIssued(cmd, number) ==
  Cardinality({c \in 1..Len(calls) : calls[c].cmd = cmd /\ calls[c].arg[1] = number})

\* C30: in a live run that ended well there is one 'pr comment' per record
\* and one 'issue comment' and one 'issue close' per record and issue of it:
\* a pull request of k records is commented k times, an issue of several
\* records is commented and closed once for each
C30_OncePerRecord ==
  (pc = "exited" /\ ~DRY_RUN)
    => /\ \A n \in {10, 11, 20} :
            TimesIssued("gh pr comment", n)
              = Cardinality({k \in 1..Len(prs) : prs[k].number = n})
       /\ \A n \in IssueNumbers : \A cmd \in {"gh issue comment", "gh issue close"} :
            TimesIssued(cmd, n)
              = Cardinality({pair \in (1..Len(prs)) \X (1..3) :
                               /\ pair[2] <= Len(prs[pair[1]].issues)
                               /\ prs[pair[1]].issues[pair[2]] = n})

\* C30 witness: two commits led to pull request #10, which was commented
\* twice, as was its issue
C30_Witness ==
  /\ pc = "exited" /\ ~DRY_RUN
  /\ Len(prs) = 2
  /\ prs[1].number = 10 /\ prs[2].number = 10
  /\ TimesIssued("gh pr comment", 10) = 2
  /\ TimesIssued("gh issue close", 5) = 2

====
